---- MODULE Spec2Model ----
(***************************************************************************)
(* A model of class NetworkDevice (networkdevice.py): the constructor's    *)
(* resource-path dispatch on the controller version, the four query        *)
(* methods (URL building, one GET, status test, unwrapping of the          *)
(* 'response' member) and the caller's assignments to the filter field.    *)
(*                                                                         *)
(* Python strings are TLA+ strings, except the version string, which is a  *)
(* sequence of one-character strings so that Python's byte-wise            *)
(* comparison can be computed.  A JSON text is modelled by its structure   *)
(* (invalid text, a top-level array, or the member list of an object) and  *)
(* json.loads by what it builds from it.                                   *)
(***************************************************************************)
EXTENDS Integers, Sequences, FiniteSets, TLC

VARIABLES
    dnac,          \* the Dnac object: [url, hdrs, version]
    state,         \* "new" before __init__, then "ready" or "failed"
    priv_respath,  \* the private attribute self.__respath: [bound, value]
    respath,       \* self.respath
    filter,        \* self.filter
    verify,        \* self.verify
    timeout,       \* self.timeout
    ctor,          \* the outcome of the constructor call
    assigned,      \* history: the value the caller last gave the filter
    last,          \* history: the last completed query call
    repeat,        \* history: the last call repeated the one before it
    pc,            \* position of the thread running a query (SpecConc)
    call,          \* the query in progress: [op, arg, assigned, before]
    url,           \* the local variable url of the query in progress
    seen           \* history: values self.filter held during the call

vars == <<dnac, state, priv_respath, respath, filter, verify, timeout, ctor,
          assigned, last, repeat, pc, call, url, seen>>

-----------------------------------------------------------------------------
(* Bounds and input sets *)

MaxRecords == 2

Records == {"r1", "r2"}

Lists == UNION {[1..n -> Records] : n \in 0..MaxRecords}

Filters == {"", "?x=1", "?hostname=DC1-A3850.cisco.com"}

Ids == {"uuid-1", "84e4b133-2668-4705-8163-5694c84e78fb"}

Names == {"host.example.com"}

Ips == {"10.0.0.5", "not-an-ip"}

Timeouts == {5, 30}

Versions ==
    { <<"1", ".", "2", ".", "8">>,
      <<"1", ".", "1", "0", ".", "0">>,
      <<"1", ".", "2", ".", "8", ".", "1">>,
      <<"1", ".", "2", ".", "9">>,
      <<"1", ".", "3", ".", "0">>,
      <<"2", ".", "0">> }

Sessions ==
    [url : {"https://dnac.example.com"}, hdrs : {"X-Auth-Token: t"},
     version : Versions]

-----------------------------------------------------------------------------
(* Python values and outcomes of a call *)

PyNone == [type |-> "NoneType", items |-> <<>>]

PyList(items) == [type |-> "list", items |-> items]

Return(value, printed) ==
    [kind |-> "return", value |-> value, exc |-> "", printed |-> printed]

Raise(exc, printed) ==
    [kind |-> "raise", value |-> PyNone, exc |-> exc, printed |-> printed]

NoOutcome == [kind |-> "none", value |-> PyNone, exc |-> "", printed |-> ""]

RECURSIVE Str(_)
Str(s) == IF s = <<>> THEN "" ELSE Head(s) \o Str(Tail(s))

Code(c) ==
    CASE c = "." -> 46
      [] c = "0" -> 48
      [] c = "1" -> 49
      [] c = "2" -> 50
      [] c = "3" -> 51
      [] c = "8" -> 56
      [] c = "9" -> 57

RECURSIVE StrLE(_, _)
StrLE(a, b) ==
    IF a = <<>> THEN TRUE
    ELSE IF b = <<>> THEN FALSE
    ELSE IF Code(Head(a)) < Code(Head(b)) THEN TRUE
    ELSE IF Code(Head(a)) > Code(Head(b)) THEN FALSE
    ELSE StrLE(Tail(a), Tail(b))

-----------------------------------------------------------------------------
(* The controller's answers *)

JsonArray(items) == [type |-> "array", items |-> items]

JsonNull == [type |-> "null", items |-> <<>>]

JsonValues == {JsonArray(l) : l \in Lists} \cup {JsonNull}

Member(k, v) == [key |-> k, value |-> v]

InvalidText == [kind |-> "invalid", members |-> <<>>]

ArrayText == [kind |-> "array", members |-> <<>>]

ObjectText(members) == [kind |-> "object", members |-> members]

Bodies ==
    {InvalidText, ArrayText, ObjectText(<<>>),
     ObjectText(<<Member("version", JsonArray(<<"r1">>))>>),
     ObjectText(<<Member("response", JsonArray(<<"r1">>)),
                  Member("response", JsonArray(<<"r2">>))>>)}
    \cup {ObjectText(<<Member("response", v)>>) : v \in JsonValues}
    \cup {ObjectText(<<Member("version", JsonArray(<<"r2">>)),
                       Member("response", JsonArray(l))>>) :
            l \in {<<"r1", "r2">>}}

ErrorBodies ==
    {InvalidText, ObjectText(<<Member("response", JsonArray(<<"r1">>))>>)}

HTTP_OK == 200

Responses ==
    {[error |-> "Timeout", status |-> 0, body |-> InvalidText]}
    \cup [error : {""}, status : {HTTP_OK}, body : Bodies]
    \cup [error : {""}, status : {204, 404}, body : ErrorBodies]

-----------------------------------------------------------------------------
(* json.loads and the handling of the controller's answer *)

Keys(members) == {members[i].key : i \in 1..Len(members)}

LastValue(members, k) ==
    LET i == CHOOSE n \in 1..Len(members) :
                 /\ members[n].key = k
                 /\ \A m \in (n + 1)..Len(members) : members[m].key /= k
    IN members[i].value

\* json.loads(text): ValueError on invalid text, else a list or a dict; in a
\* dict a later member replaces an earlier one with the same key.
json_loads(text) ==
    [error |-> IF text.kind = "invalid" THEN "ValueError" ELSE "",
     type  |-> IF text.kind = "object" THEN "dict"
               ELSE IF text.kind = "array" THEN "list" ELSE "",
     dict  |-> [k \in Keys(text.members) |-> LastValue(text.members, k)]]

\* a variant of ToPy that keeps the first device only
ToPy_first(v) ==
    IF v.type = "array"
    THEN PyList(IF v.items = <<>> THEN <<>> ELSE <<Head(v.items)>>)
    ELSE PyNone

\* the Python object json.loads builds for a JSON value
ToPy(v) == IF v.type = "array" THEN PyList(v.items) ELSE PyNone

\* json.loads(resp.text)['response']
Subscript_response(text) ==
    LET parsed == json_loads(text) IN
    IF parsed.error /= "" THEN Raise(parsed.error, "")
    ELSE IF parsed.type /= "dict" THEN Raise("TypeError", "")
    ELSE IF "response" \notin DOMAIN parsed.dict THEN Raise("KeyError", "")
    ELSE Return(ToPy(parsed.dict["response"]), "")

\* the statements after requests.request in each of the four methods
HandleResponse(resp, failure) ==
    IF resp.error /= "" THEN Raise("requests.exceptions." \o resp.error, "")
    ELSE IF resp.status /= HTTP_OK
         THEN Return(PyNone, failure \o ToString(resp.status))
         ELSE Subscript_response(resp.body)

FailureText(op, arg) ==
    CASE op = "getAllDevices" -> "Failed to get all devices from DNAC: "
      [] op = "getDeviceById" -> "Failed to get device " \o arg \o "from DNAC: "
      [] OTHER                -> "Failed to get " \o arg \o " from DNAC: "

-----------------------------------------------------------------------------
(* The state of the object *)

ResPath == "/dna/intent/api/v1/network-device"

MaxVersion == <<"1", ".", "2", ".", "8">>

DefaultTimeout == 5

Fields ==
    [filter |-> filter, respath |-> respath, verify |-> verify,
     timeout |-> timeout]

NoFields == [filter |-> "", respath |-> "", verify |-> FALSE, timeout |-> 0]

NoResponse == [error |-> "", status |-> 0, body |-> InvalidText]

NoCall == [op |-> "none", arg |-> "", assigned |-> "", before |-> NoFields]

NoLast ==
    [op |-> "none", arg |-> "", assigned |-> "", before |-> NoFields,
     after |-> NoFields, resp |-> NoResponse, requests |-> <<>>,
     outcome |-> NoOutcome]

Init ==
    /\ dnac \in Sessions
    /\ state = "new"
    /\ priv_respath = [bound |-> FALSE, value |-> ""]
    /\ respath = ""
    /\ filter = ""
    /\ verify = FALSE
    /\ timeout = 0
    /\ ctor = NoOutcome
    /\ assigned = ""
    /\ last = NoLast
    /\ repeat = FALSE
    /\ pc = "idle"
    /\ call = NoCall
    /\ url = ""
    /\ seen = {}

\* DnacApi.__init__: stores the resource path, the filter, verify and timeout
DnacApi_init(resourcePath, requestFilter, v, t) ==
    /\ respath' = resourcePath
    /\ filter' = requestFilter
    /\ verify' = v
    /\ timeout' = t

\* NetworkDevice.__init__
NetworkDevice_init(requestFilter, v, t) ==
    /\ state = "new"
    /\ LET supported == StrLE(dnac.version, MaxVersion)
           printed == IF supported THEN ""
                      ELSE "Unsupported version of DNAC: " \o Str(dnac.version)
           priv == IF supported THEN [bound |-> TRUE, value |-> ResPath]
                   ELSE priv_respath
       IN /\ priv_respath' = priv
          /\ IF priv.bound
             THEN /\ DnacApi_init(priv.value, requestFilter, v, t)
                  /\ assigned' = requestFilter
                  /\ state' = "ready"
                  /\ ctor' = Return(PyNone, printed)
             ELSE /\ UNCHANGED <<respath, filter, verify, timeout, assigned>>
                  /\ state' = "failed"
                  /\ ctor' = Raise("AttributeError", printed)
    /\ UNCHANGED <<dnac, last, repeat, pc, call, url, seen>>

\* nd.filter = f, by the caller
SetFilter(f) ==
    /\ state = "ready"
    /\ filter' = f
    /\ assigned' = f
    /\ seen' = IF pc = "idle" THEN seen ELSE seen \cup {f}
    /\ UNCHANGED <<dnac, state, priv_respath, respath, verify, timeout, ctor,
                   last, repeat, pc, call, url>>

-----------------------------------------------------------------------------
(* The query methods *)

\* requests.request("GET", url, headers=hdrs, verify=..., timeout=...)
Request(u) ==
    [method |-> "GET", url |-> u, headers |-> dnac.hdrs, verify |-> verify,
     timeout |-> timeout]

\* a variant of Url_getAllDevices that leaves the filter out
Url_getAllDevices_nofilter == dnac.url \o respath

\* url = self.dnac.url + self.respath + self.filter
Url_getAllDevices == dnac.url \o respath \o filter

\* url = self.dnac.url + self.respath + id
ById_start(id) == dnac.url \o respath \o id

\* a variant of ById_test: the emptiness test is missing
ById_test_missing == TRUE

\* if self.filter != "":
ById_test == filter /= ""

\* url = url + "/" + self.filter
ById_concat(u) == u \o "/" \o filter

Url_getDeviceById(id) ==
    LET u == ById_start(id) IN IF ById_test THEN ById_concat(u) ELSE u

Url_getDeviceByName(name) ==
    LET local_filter == "?hostname=" \o name
    IN dnac.url \o respath \o local_filter

\* a variant of Url_getDeviceByIp that also appends the instance's filter
Url_getDeviceByIp_filter(ip) ==
    LET local_filter == "?managementIpAddress=" \o ip
    IN dnac.url \o respath \o local_filter \o filter

Url_getDeviceByIp(ip) ==
    LET local_filter == "?managementIpAddress=" \o ip
    IN dnac.url \o respath \o local_filter

\* The request and what follows it, recorded as the last completed call.
\* The object's fields must be given their next values before this is used.
Complete(c, u, resp) ==
    /\ last' = [op |-> c.op, arg |-> c.arg, assigned |-> c.assigned,
                before |-> c.before, after |-> Fields', resp |-> resp,
                requests |-> <<Request(u)>>,
                outcome |-> HandleResponse(resp, FailureText(c.op, c.arg))]
    /\ repeat' = /\ last.op = c.op
                 /\ last.arg = c.arg
                 /\ last.before.filter = c.before.filter
                 /\ last.resp = resp

Entered(op, arg) ==
    [op |-> op, arg |-> arg, assigned |-> assigned, before |-> Fields]

\* a variant of getAllDevices that keeps the filter it used in the resource
\* path
getAllDevices_accumulates ==
    /\ state = "ready" /\ pc = "idle"
    /\ respath' = respath \o filter
    /\ UNCHANGED <<dnac, state, priv_respath, filter, verify, timeout, ctor,
                   assigned, pc, call, url>>
    /\ seen' = {filter}
    /\ \E resp \in Responses :
           Complete(Entered("getAllDevices", ""), Url_getAllDevices, resp)

getAllDevices ==
    /\ state = "ready" /\ pc = "idle"
    /\ UNCHANGED <<dnac, state, priv_respath, respath, filter, verify,
                   timeout, ctor, assigned, pc, call, url>>
    /\ seen' = {filter}
    /\ \E resp \in Responses :
           Complete(Entered("getAllDevices", ""), Url_getAllDevices, resp)

getDeviceById(id) ==
    /\ state = "ready" /\ pc = "idle"
    /\ UNCHANGED <<dnac, state, priv_respath, respath, filter, verify,
                   timeout, ctor, assigned, pc, call, url>>
    /\ seen' = {filter}
    /\ \E resp \in Responses :
           Complete(Entered("getDeviceById", id), Url_getDeviceById(id), resp)

\* a variant of getDeviceByName that stores its filter in self.filter
getDeviceByName_persists(name) ==
    /\ state = "ready" /\ pc = "idle"
    /\ filter' = "?hostname=" \o name
    /\ UNCHANGED <<dnac, state, priv_respath, respath, verify, timeout, ctor,
                   assigned, pc, call, url>>
    /\ seen' = {filter}
    /\ \E resp \in Responses :
           Complete(Entered("getDeviceByName", name),
                    Url_getDeviceByName(name), resp)

getDeviceByName(name) ==
    /\ state = "ready" /\ pc = "idle"
    /\ UNCHANGED <<dnac, state, priv_respath, respath, filter, verify,
                   timeout, ctor, assigned, pc, call, url>>
    /\ seen' = {filter}
    /\ \E resp \in Responses :
           Complete(Entered("getDeviceByName", name),
                    Url_getDeviceByName(name), resp)

getDeviceByIp(ip) ==
    /\ state = "ready" /\ pc = "idle"
    /\ UNCHANGED <<dnac, state, priv_respath, respath, filter, verify,
                   timeout, ctor, assigned, pc, call, url>>
    /\ seen' = {filter}
    /\ \E resp \in Responses :
           Complete(Entered("getDeviceByIp", ip), Url_getDeviceByIp(ip), resp)

Next ==
    \/ \E rf \in Filters, v \in BOOLEAN, t \in Timeouts :
           NetworkDevice_init(rf, v, t)
    \/ \E f \in Filters : SetFilter(f)
    \/ getAllDevices
    \/ \E id \in Ids : getDeviceById(id)
    \/ \E name \in Names : getDeviceByName(name)
    \/ \E ip \in Ips : getDeviceByIp(ip)

Spec == Init /\ [][Next]_vars

-----------------------------------------------------------------------------
(* The same methods, statement by statement: one thread runs a query while *)
(* another assigns the filter (SetFilter) between any two of its           *)
(* statements.                                                             *)

ConcIds == {"uuid-1"}

ConcIps == {"10.0.0.5"}

ConcResponses ==
    {r \in Responses :
        \/ r.error /= ""
        \/ r.status = 404 /\ r.body = InvalidText
        \/ r.status = HTTP_OK /\ r.body \in
               {ObjectText(<<>>),
                ObjectText(<<Member("response", JsonArray(<<"r1">>))>>)}}

InitConc ==
    /\ dnac \in {d \in Sessions : d.version = MaxVersion}
    /\ state = "ready"
    /\ priv_respath = [bound |-> TRUE, value |-> ResPath]
    /\ respath = ResPath
    /\ filter \in Filters
    /\ verify = FALSE
    /\ timeout = DefaultTimeout
    /\ ctor = Return(PyNone, "")
    /\ assigned = filter
    /\ last = NoLast
    /\ repeat = FALSE
    /\ pc = "idle"
    /\ call = NoCall
    /\ url = ""
    /\ seen = {}

Enter(op, arg, u, next) ==
    /\ state = "ready" /\ pc = "idle"
    /\ call' = Entered(op, arg)
    /\ url' = u
    /\ seen' = {filter}
    /\ pc' = next
    /\ UNCHANGED <<dnac, state, priv_respath, respath, filter, verify,
                   timeout, ctor, assigned, last, repeat>>

getAllDevices_url == Enter("getAllDevices", "", Url_getAllDevices, "request")

getDeviceById_url(id) == Enter("getDeviceById", id, ById_start(id), "test")

getDeviceById_test ==
    /\ pc = "test"
    /\ pc' = IF ById_test THEN "concat" ELSE "request"
    /\ UNCHANGED <<dnac, state, priv_respath, respath, filter, verify,
                   timeout, ctor, assigned, last, repeat, call, url, seen>>

getDeviceById_concat ==
    /\ pc = "concat"
    /\ url' = ById_concat(url)
    /\ pc' = "request"
    /\ UNCHANGED <<dnac, state, priv_respath, respath, filter, verify,
                   timeout, ctor, assigned, last, repeat, call, seen>>

getDeviceByName_url(name) ==
    Enter("getDeviceByName", name, Url_getDeviceByName(name), "request")

getDeviceByIp_url(ip) ==
    Enter("getDeviceByIp", ip, Url_getDeviceByIp(ip), "request")

\* resp = requests.request(...) and the statements after it
request ==
    /\ pc = "request"
    /\ UNCHANGED <<dnac, state, priv_respath, respath, filter, verify,
                   timeout, ctor, assigned, seen>>
    /\ pc' = "idle"
    /\ call' = NoCall
    /\ url' = ""
    /\ \E resp \in ConcResponses : Complete(call, url, resp)

NextConc ==
    \/ \E f \in Filters : SetFilter(f)
    \/ getAllDevices_url
    \/ \E id \in ConcIds : getDeviceById_url(id)
    \/ getDeviceById_test
    \/ getDeviceById_concat
    \/ \E name \in Names : getDeviceByName_url(name)
    \/ \E ip \in ConcIps : getDeviceByIp_url(ip)
    \/ request

SpecConc == InitConc /\ [][NextConc]_vars

-----------------------------------------------------------------------------
(* Properties *)

Called == last.op /= "none"

LastUrl == last.requests[1].url

Answered == Called /\ last.resp.error = ""

\* C1: after a non-200 answer each of the four query methods ends in a
\* RequestFailedError; it returns neither a record sequence nor None.
C1_NonOkRaisesRequestFailed ==
    (Answered /\ last.resp.status /= HTTP_OK)
        => /\ last.outcome.kind = "raise"
           /\ last.outcome.exc = "RequestFailedError"

\* C2: construction with a version <= "1.2.8" (string comparison) yields
\* the resource path /dna/intent/api/v1/network-device; with any greater
\* version it fails with UnsupportedVersionError.
C2_ConstructionByVersion ==
    state /= "new"
        => IF StrLE(dnac.version, MaxVersion)
           THEN /\ state = "ready"
                /\ ctor.kind = "return"
                /\ respath = "/dna/intent/api/v1/network-device"
           ELSE /\ state = "failed"
                /\ ctor.kind = "raise"
                /\ ctor.exc = "UnsupportedVersionError"

\* C3: getDeviceById(id) requests baseUrl + resourcePath + "/" + id, followed
\* by "/" + queryFilter when queryFilter is not empty and by nothing
\* otherwise.
C3_ByIdUrlHasIdSegment ==
    last.op = "getDeviceById"
        => /\ Len(last.requests) = 1
           /\ LastUrl = dnac.url \o last.before.respath \o "/" \o last.arg
                          \o (IF last.before.filter = "" THEN ""
                              ELSE "/" \o last.before.filter)

NoResponseKey(text) ==
    /\ text.kind = "object"
    /\ \A i \in 1..Len(text.members) : text.members[i].key /= "response"

\* C4: after a 200 answer whose body is a JSON object without a 'response'
\* key each query method ends in a MalformedResponseError.
C4_MissingKeyRaisesMalformed ==
    (Answered /\ last.resp.status = HTTP_OK /\ NoResponseKey(last.resp.body))
        => /\ last.outcome.kind = "raise"
           /\ last.outcome.exc = "MalformedResponseError"

ResponseIs(text, l) ==
    /\ text.kind = "object"
    /\ \E i \in 1..Len(text.members) :
           /\ text.members[i] = Member("response", JsonArray(l))
           /\ \A j \in 1..Len(text.members) :
                  j /= i => text.members[j].key /= "response"

\* C5: after a 200 answer whose body is {"response": [r1, ..., rn]},
\* getAllDevices returns exactly [r1, ..., rn]: same length, same order,
\* nothing dropped, added or changed.
C5_AllDevicesReturnsResponse ==
    \A l \in Lists :
        (/\ last.op = "getAllDevices"
         /\ Answered
         /\ last.resp.status = HTTP_OK
         /\ ResponseIs(last.resp.body, l))
            => last.outcome = Return(PyList(l), "")

C5_Witness ==
    /\ last.op = "getAllDevices"
    /\ last.resp.body = ObjectText(<<Member("response",
                                            JsonArray(<<"r2", "r1">>))>>)
    /\ last.resp.status = HTTP_OK
    /\ last.outcome.value = PyList(<<"r2", "r1">>)

\* C6: getDeviceByName(name) requests baseUrl + resourcePath + "?hostname="
\* + name whatever the instance's filter is, and the instance's filter is
\* the same after the call as before it, whatever the outcome.
C6_ByNameUrlAndFilterKept ==
    last.op = "getDeviceByName"
        => /\ Len(last.requests) = 1
           /\ LastUrl = dnac.url \o last.before.respath \o "?hostname="
                          \o last.arg
           /\ last.after.filter = last.before.filter

C6_Witness ==
    /\ last.op = "getDeviceByName"
    /\ last.before.filter = "?x=1"
    /\ last.resp.status = 404
    /\ last.outcome.kind = "return"
    /\ LastUrl = "https://dnac.example.com/dna/intent/api/v1/network-device"
                   \o "?hostname=host.example.com"

\* C7: getDeviceByIp(ip) requests baseUrl + resourcePath +
\* "?managementIpAddress=" + ip for every string ip, unchanged and
\* unvalidated, whatever the instance's filter is.
C7_ByIpUrl ==
    last.op = "getDeviceByIp"
        => /\ Len(last.requests) = 1
           /\ LastUrl = dnac.url \o last.before.respath
                          \o "?managementIpAddress=" \o last.arg

C7_Witness ==
    /\ last.op = "getDeviceByIp"
    /\ last.arg = "not-an-ip"
    /\ last.before.filter = "?x=1"
    /\ LastUrl = "https://dnac.example.com/dna/intent/api/v1/network-device"
                   \o "?managementIpAddress=not-an-ip"

\* C8: a call of getAllDevices that repeats the call before it (same
\* session, same filter, same answer of the controller) issues the same
\* request and has the same outcome as that call.
C8_RepeatedCallSameResult ==
    [][(repeat' /\ last'.op = "getAllDevices")
          => (last'.requests = last.requests /\ last'.outcome = last.outcome)]_vars

C8_Witness ==
    /\ repeat
    /\ last.op = "getAllDevices"
    /\ last.before.filter = "?x=1"
    /\ last.outcome.value = PyList(<<"r1", "r2">>)

\* C9: getAllDevices issues exactly one GET, to baseUrl + resourcePath + f
\* with f the value the caller last assigned to the filter (the
\* constructor's requestFilter if none was assigned); no query method
\* changes the filter, the resource path, verify or timeout.
C9_AllDevicesUsesAssignedFilter ==
    /\ state = "ready" => (filter = assigned /\ respath = ResPath)
    /\ Called => last.after = last.before
    /\ last.op = "getAllDevices"
           => /\ Len(last.requests) = 1
              /\ last.requests[1].method = "GET"
              /\ LastUrl = dnac.url \o ResPath \o last.assigned

C9_Witness ==
    /\ last.op = "getAllDevices"
    /\ last.assigned = "?hostname=DC1-A3850.cisco.com"
    /\ assigned = "?x=1"
    /\ LastUrl = "https://dnac.example.com/dna/intent/api/v1/network-device"
                   \o "?hostname=DC1-A3850.cisco.com"

\* the URL a call made with no assignment during it requests when the
\* filter is f
SeqUrl(op, arg, f) ==
    CASE op = "getAllDevices"   -> dnac.url \o respath \o f
      [] op = "getDeviceById"   ->
             dnac.url \o respath \o arg \o (IF f = "" THEN "" ELSE "/" \o f)
      [] op = "getDeviceByName" -> dnac.url \o respath \o "?hostname=" \o arg
      [] OTHER -> dnac.url \o respath \o "?managementIpAddress=" \o arg

\* C10 (as claimed): when the filter is assigned while a query runs, the URL
\* the query requests is one a sequential execution produces with a single
\* value the filter held during the call.
C10_UrlIsSequential ==
    (pc = "idle" /\ Called)
        => LastUrl \in {SeqUrl(last.op, last.arg, f) : f \in seen}

\* C10 (amended): the URL is one a sequential execution produces with a
\* single value the filter held during the call, except that getDeviceById
\* requests baseUrl + resourcePath + id + "/" when the filter held a
\* non-empty value and the empty value during the call; no URL holds two
\* filter values.
C10_UrlSequentialOrTrailingSlash ==
    (pc = "idle" /\ Called)
        => \/ LastUrl \in {SeqUrl(last.op, last.arg, f) : f \in seen}
           \/ /\ last.op = "getDeviceById"
              /\ "" \in seen
              /\ seen /= {""}
              /\ LastUrl = dnac.url \o respath \o last.arg \o "/"

C10_Witness ==
    /\ pc = "idle"
    /\ last.op = "getDeviceById"
    /\ seen = {"?x=1", ""}
    /\ LastUrl = "https://dnac.example.com/dna/intent/api/v1/network-device"
                   \o "uuid-1/"

====
